---------------------------- MODULE Spec2Model ----------------------------
(***************************************************************************)
(* A model of VastAIBot.py: the polling loop (main, monitor_servers,       *)
(* handle_shutdown) and the per-account reconciliation (process_account)   *)
(* with its field change detector.                                         *)
(*                                                                         *)
(* The program is a single asyncio task.  A signal handler installed with  *)
(* loop.add_signal_handler runs only while the task is suspended in an     *)
(* await, so every state of the model is the program suspended at one of   *)
(* its awaits, and every action runs the code from one await to the next.  *)
(*                                                                         *)
(* Encodings: currency amounts are integers (the code compares them with   *)
(* exact equality only); JSON null in a numeric field is the integer Null; *)
(* a dict is a function whose DOMAIN is its key set; a rendered line is a  *)
(* record of the values the f-string interpolates; a JSON file is absent,  *)
(* malformed, or the value json.load returns for it, with the string keys  *)
(* and the booleans, numbers and strings that json.dump wrote.             *)
(***************************************************************************)
EXTENDS Integers, Sequences, FiniteSets, TLC

\* Bounds of the model.
MaxCycles == 2

\* JSON null / Python None in a numeric field.
Null == -1
\* The "all machines" sentinel of machine_ids (line 226).
AllServers == -1

EmptyDict == <<>>

---------------------------------------------------------------------------
\* Python helpers

\* dict.get(key, default)
Get(d, k, default) == IF k \in DOMAIN d THEN d[k] ELSE default

\* `value or default` on a number: 0 and None are falsy.
OrNum(v, default) == IF v = 0 \/ v = Null THEN default ELSE v

\* `value or default` on a boolean.
OrBool(v, default) == IF v = FALSE THEN default ELSE v

\* str(int) and int(str) on the machine ids.
Digit == <<"1", "2", "3", "4", "5", "6", "7", "8", "9">>

Str(i) == Digit[i]

ParseInt(s) == CHOOSE i \in 1..Len(Digit) : Digit[i] = s

\* str.count(ch) on a string given as a sequence of characters.
RECURSIVE Count(_, _)
Count(s, ch) ==
    IF s = <<>> THEN 0
    ELSE (IF Head(s) = ch THEN 1 ELSE 0) + Count(Tail(s), ch)

\* str.replace(' ', '')
StripSpaces(s) == SelectSeq(s, LAMBDA c : c # " ")

\* A load_json that catches FileNotFoundError only.
load_json_DecodeErrorEscapes(file) ==
    [ raised |-> file.kind = "malformed",
      value |-> IF file.kind = "json" THEN file.data ELSE EmptyDict ]

\* load_json: the parsed content, or {} when the file is absent
\* (FileNotFoundError) or malformed (JSONDecodeError); neither is re-raised.
load_json(file) ==
    [ raised |-> FALSE,
      value |-> IF file.kind = "json" THEN file.data ELSE EmptyDict ]

\* save_json: the file after the call.  open() may fail (file untouched), or
\* json.dump may fail after open() truncated the file (a partial document).
WrittenFile(file, data, outcome) ==
    CASE outcome = "ok" -> [kind |-> "json", data |-> data]
      [] outcome = "open_failed" -> file
      [] outcome = "write_failed" -> [kind |-> "malformed"]

\* A save_json without its except clause.
save_json_IOErrorEscapes(file, data, outcome) ==
    [ raised |-> outcome # "ok", file |-> WrittenFile(file, data, outcome) ]

\* The IOError is logged at line 71 and goes no further.
save_json(file, data, outcome) ==
    [ raised |-> FALSE, file |-> WrittenFile(file, data, outcome) ]

SaveOutcomes == {"ok", "open_failed", "write_failed"}

\* A call_vast_api that lets the request's exception escape.
call_vast_api_Raising(response) ==
    IF response.ok
    THEN [raised |-> FALSE, value |-> response.json]
    ELSE [raised |-> TRUE]

\* call_vast_api: every exception of the request is caught and {} returned.
call_vast_api(response) ==
    IF response.ok
    THEN [raised |-> FALSE, value |-> response.json]
    ELSE [raised |-> FALSE, value |-> EmptyDict]

---------------------------------------------------------------------------
\* process_account, lines 229-272: the values derived from one fetched record.

server_id_of(server) == Str(Get(server, "id", Null))

\* A key that is absent and a key that is null give the same value wherever
\* the code writes `server.get(key, default) or default`; the defaults "" of
\* num_reports and of gpu_occupancy are falsy like 0 and the empty string.
Derive(server) ==
    LET listed == OrBool(Get(server, "listed", FALSE), FALSE)
        running == Get(server, "current_rentals_running", 0)
        gpu_occupancy == Get(server, "gpu_occupancy", <<>>)
    IN  [ listed |-> listed,
          running |-> running,
          resident |-> Get(server, "current_rentals_resident", 0),
          rented |-> running > 0,
          reliability |-> OrNum(Get(server, "reliability2", 0), 0),
          num_gpus |-> Get(server, "num_gpus", 0),
          earn_hour |-> OrNum(Get(server, "earn_hour", 0), 0),
          earn_day |-> OrNum(Get(server, "earn_day", 0), 0),
          gpu_occupancy |-> gpu_occupancy,
          num_reports |-> OrNum(Get(server, "num_reports", 0), 0),
          verification |-> Get(server, "verification", "None"),
          min_bid_price |-> OrNum(Get(server, "min_bid_price", 0), 0),
          rented_gpus |->
              IF listed
              THEN Count(gpu_occupancy, "D") + Count(gpu_occupancy, "I")
              ELSE running,
          listed_gpu_cost |->
              IF listed THEN OrNum(Get(server, "listed_gpu_cost", 0), 0) ELSE 0,
          listed_storage_cost |->
              IF listed THEN OrNum(Get(server, "listed_storage_cost", 0), 0) ELSE 0,
          listed_min_gpu_count |->
              IF listed THEN OrNum(Get(server, "listed_min_gpu_count", 0), 0) ELSE 0,
          listed_inet_down_cost |->
              IF listed THEN OrNum(Get(server, "listed_inet_down_cost", 0), 0) ELSE 0,
          listed_inet_up_cost |->
              IF listed THEN OrNum(Get(server, "listed_inet_up_cost", 0), 0) ELSE 0 ]

\* Line 272: the status line of one machine.
server_line(server_id, d) ==
    [ kind |-> "status", id |-> server_id, rented |-> d.rented,
      gpu_status |-> <<d.rented_gpus, d.num_gpus>>,
      listed_min_gpu_count |-> d.listed_min_gpu_count,
      price_info |->
          IF d.listed
          THEN <<d.listed_gpu_cost, d.min_bid_price, d.listed_storage_cost>>
          ELSE <<"NotList">>,
      reliability |-> d.reliability,
      resident |-> d.resident, running |-> d.running ]

\* An entry that stores the rentals running as the rented GPU count.
NewEntry_RunningAsRentedGpus(d) ==
    [ rented |-> d.rented,
      rented_gpus |-> d.running,
      listed_gpu_cost |-> d.listed_gpu_cost,
      listed_storage_cost |-> d.listed_storage_cost,
      min_bid_price |-> d.min_bid_price,
      listed_min_gpu_count |-> d.listed_min_gpu_count,
      earn_hour |-> d.earn_hour,
      earn_day |-> d.earn_day,
      reliability |-> d.reliability,
      num_reports |-> d.num_reports,
      gpu_occupancy |-> d.gpu_occupancy,
      listed_inet_down_cost |-> d.listed_inet_down_cost,
      listed_inet_up_cost |-> d.listed_inet_up_cost,
      running |-> d.running,
      resident |-> d.resident,
      verification |-> d.verification ]

\* An entry written without the verification key.
NewEntry_NoVerification(d) ==
    [ rented |-> d.rented,
      rented_gpus |-> d.rented_gpus,
      listed_gpu_cost |-> d.listed_gpu_cost,
      listed_storage_cost |-> d.listed_storage_cost,
      min_bid_price |-> d.min_bid_price,
      listed_min_gpu_count |-> d.listed_min_gpu_count,
      earn_hour |-> d.earn_hour,
      earn_day |-> d.earn_day,
      reliability |-> d.reliability,
      num_reports |-> d.num_reports,
      gpu_occupancy |-> d.gpu_occupancy,
      listed_inet_down_cost |-> d.listed_inet_down_cost,
      listed_inet_up_cost |-> d.listed_inet_up_cost,
      running |-> d.running,
      resident |-> d.resident ]

\* Lines 345-364: the status-map entry written for one machine.
NewEntry(d) ==
    [ rented |-> d.rented,
      rented_gpus |-> d.rented_gpus,
      listed_gpu_cost |-> d.listed_gpu_cost,
      listed_storage_cost |-> d.listed_storage_cost,
      min_bid_price |-> d.min_bid_price,
      listed_min_gpu_count |-> d.listed_min_gpu_count,
      earn_hour |-> d.earn_hour,
      earn_day |-> d.earn_day,
      reliability |-> d.reliability,
      num_reports |-> d.num_reports,
      gpu_occupancy |-> d.gpu_occupancy,
      listed_inet_down_cost |-> d.listed_inet_down_cost,
      listed_inet_up_cost |-> d.listed_inet_up_cost,
      running |-> d.running,
      resident |-> d.resident,
      verification |-> d.verification ]

---------------------------------------------------------------------------
\* process_account, lines 276-340: the field change detector.

\* The previous values with rented_gpus read from the "running" key.
Previous_RunningKey(old_data) ==
    [ listed_gpu_cost |-> OrNum(Get(old_data, "listed_gpu_cost", Null), 0),
      listed_storage_cost |-> OrNum(Get(old_data, "listed_storage_cost", Null), 0),
      rented |-> OrBool(Get(old_data, "rented", FALSE), FALSE),
      rented_gpus |-> OrNum(Get(old_data, "running", Null), 0),
      min_bid_price |-> OrNum(Get(old_data, "min_bid_price", Null), 0),
      listed_min_gpu_count |-> OrNum(Get(old_data, "listed_min_gpu_count", Null), 0),
      num_reports |-> OrNum(Get(old_data, "num_reports", Null), 0),
      listed_inet_down_cost |-> OrNum(Get(old_data, "listed_inet_down_cost", Null), 0),
      listed_inet_up_cost |-> OrNum(Get(old_data, "listed_inet_up_cost", Null), 0),
      verification |-> Get(old_data, "verification", "") ]

\* Lines 276-285: the previous values, defaulted.
Previous(old_data) ==
    [ listed_gpu_cost |-> OrNum(Get(old_data, "listed_gpu_cost", Null), 0),
      listed_storage_cost |-> OrNum(Get(old_data, "listed_storage_cost", Null), 0),
      rented |-> OrBool(Get(old_data, "rented", FALSE), FALSE),
      rented_gpus |-> OrNum(Get(old_data, "rented_gpus", Null), 0),
      min_bid_price |-> OrNum(Get(old_data, "min_bid_price", Null), 0),
      listed_min_gpu_count |-> OrNum(Get(old_data, "listed_min_gpu_count", Null), 0),
      num_reports |-> OrNum(Get(old_data, "num_reports", Null), 0),
      listed_inet_down_cost |-> OrNum(Get(old_data, "listed_inet_down_cost", Null), 0),
      listed_inet_up_cost |-> OrNum(Get(old_data, "listed_inet_up_cost", Null), 0),
      verification |-> Get(old_data, "verification", "") ]

\* One change line of a plain field (lines 296-340).
ChangeLine(tag, server_id, old, new) ==
    [ kind |-> tag, id |-> server_id, old |-> old, new |-> new ]

\* A direction that is "up" unless fewer GPUs are rented.
RentalLine_UpUnlessFewer(server_id, p, d) ==
    [ kind |-> "rental", id |-> server_id,
      ico_status |-> IF p.rented_gpus <= d.rented_gpus THEN "ramp_up" ELSE "ramp_down",
      rented |-> d.rented,
      old |-> <<p.rented_gpus, d.num_gpus>>,
      new |-> <<d.rented_gpus, d.num_gpus>>,
      occupancy |-> StripSpaces(d.gpu_occupancy) ]

\* Lines 289-294: the rental transition line, with its direction icon.
RentalLine(server_id, p, d) ==
    [ kind |-> "rental", id |-> server_id,
      ico_status |-> IF p.rented_gpus < d.rented_gpus THEN "ramp_up" ELSE "ramp_down",
      rented |-> d.rented,
      old |-> <<p.rented_gpus, d.num_gpus>>,
      new |-> <<d.rented_gpus, d.num_gpus>>,
      occupancy |-> StripSpaces(d.gpu_occupancy) ]

When(cond, line) == IF cond THEN <<line>> ELSE <<>>

\* A detector that looks at the minimum bid before the minimum GPU count.
Detect_BidBeforeMinGpu(server_id, old_data, d) ==
    LET p == Previous(old_data)
    IN     When(p.rented # d.rented \/ p.rented_gpus # d.rented_gpus,
                RentalLine(server_id, p, d))
        \o When(p.listed_gpu_cost # d.listed_gpu_cost,
                ChangeLine("gpu_price", server_id,
                           p.listed_gpu_cost, d.listed_gpu_cost))
        \o When(p.listed_storage_cost # d.listed_storage_cost,
                ChangeLine("storage_price", server_id,
                           p.listed_storage_cost, d.listed_storage_cost))
        \o When(p.min_bid_price # d.min_bid_price,
                ChangeLine("min_bid", server_id,
                           p.min_bid_price, d.min_bid_price))
        \o When(p.listed_min_gpu_count # d.listed_min_gpu_count,
                ChangeLine("min_gpu", server_id,
                           p.listed_min_gpu_count, d.listed_min_gpu_count))
        \o When(p.listed_inet_down_cost # d.listed_inet_down_cost,
                ChangeLine("inet_down", server_id,
                           p.listed_inet_down_cost * 1024, d.listed_inet_down_cost * 1024))
        \o When(p.listed_inet_up_cost # d.listed_inet_up_cost,
                ChangeLine("inet_up", server_id,
                           p.listed_inet_up_cost * 1024, d.listed_inet_up_cost * 1024))
        \o When(p.num_reports # d.num_reports,
                ChangeLine("num_reports", server_id,
                           p.num_reports, d.num_reports))
        \o When(p.verification # d.verification,
                ChangeLine("verification", server_id,
                           p.verification, d.verification))

\* Lines 289-340: the change lines of one machine against its old entry, in
\* the order the code appends them.
Detect(server_id, old_data, d) ==
    LET p == Previous(old_data)
    IN     When(p.rented # d.rented \/ p.rented_gpus # d.rented_gpus,
                RentalLine(server_id, p, d))
        \o When(p.listed_gpu_cost # d.listed_gpu_cost,
                ChangeLine("gpu_price", server_id,
                           p.listed_gpu_cost, d.listed_gpu_cost))
        \o When(p.listed_storage_cost # d.listed_storage_cost,
                ChangeLine("storage_price", server_id,
                           p.listed_storage_cost, d.listed_storage_cost))
        \o When(p.listed_min_gpu_count # d.listed_min_gpu_count,
                ChangeLine("min_gpu", server_id,
                           p.listed_min_gpu_count, d.listed_min_gpu_count))
        \o When(p.min_bid_price # d.min_bid_price,
                ChangeLine("min_bid", server_id,
                           p.min_bid_price, d.min_bid_price))
        \o When(p.listed_inet_down_cost # d.listed_inet_down_cost,
                ChangeLine("inet_down", server_id,
                           p.listed_inet_down_cost * 1024, d.listed_inet_down_cost * 1024))
        \o When(p.listed_inet_up_cost # d.listed_inet_up_cost,
                ChangeLine("inet_up", server_id,
                           p.listed_inet_up_cost * 1024, d.listed_inet_up_cost * 1024))
        \o When(p.num_reports # d.num_reports,
                ChangeLine("num_reports", server_id,
                           p.num_reports, d.num_reports))
        \o When(p.verification # d.verification,
                ChangeLine("verification", server_id,
                           p.verification, d.verification))

---------------------------------------------------------------------------
\* process_account, lines 226-371: the loop over the fetched machines.

\* A filter that lets every machine through.
Monitored_NoFilter(server_id, server_ids) == TRUE

\* Line 230: whether the machine is monitored by this account.
Monitored(server_id, server_ids) ==
    AllServers \in server_ids \/ ParseInt(server_id) \in server_ids

\* A detector without the else branch of line 342.
ChangesDetected_KnownOnly(known, before, lines) ==
    before \/ (known /\ lines # <<>>)

\* A detector whose flag is raised by change lines alone.
ChangesDetected_LinesOnly(known, before, lines) == before \/ lines # <<>>

\* Lines 289-343: changes_detected after one machine was compared.
ChangesDetected(known, before, lines) ==
    IF known THEN before \/ lines # <<>> ELSE TRUE

\* One iteration of the loop (lines 229-371) on the loop's state
\* st = [previous_status, changes_detected, changes_lines, account_lines,
\* influx].
ServerStep(account_name, server, server_ids, st) ==
    LET server_id == server_id_of(server)
        d == Derive(server)
        known == server_id \in DOMAIN st.previous_status
        lines == IF known
                 THEN Detect(server_id, st.previous_status[server_id], d)
                 ELSE <<>>
    IN  IF ~Monitored(server_id, server_ids)
        THEN st
        ELSE [ previous_status |->
                   [k \in DOMAIN st.previous_status \cup {server_id} |->
                       IF k = server_id THEN NewEntry(d)
                       ELSE st.previous_status[k]],
               changes_detected |-> ChangesDetected(known, st.changes_detected, lines),
               changes_lines |-> st.changes_lines \o lines,
               account_lines |-> Append(st.account_lines, server_line(server_id, d)),
               influx |-> st.influx \cup {<<account_name, server_id>>} ]

RECURSIVE ServerLoop(_, _, _, _)
ServerLoop(account_name, servers, server_ids, st) ==
    IF servers = <<>> THEN st
    ELSE ServerLoop(account_name, Tail(servers), server_ids,
                    ServerStep(account_name, Head(servers), server_ids, st))

\* Lines 373-374: the blank separator after the change lines.
BlankLine == [kind |-> "blank", id |-> ""]

WithSeparator(changes_lines) ==
    IF changes_lines # <<>> THEN Append(changes_lines, BlankLine) ELSE changes_lines

\* A report condition that forgets to ask for a status line.
ReportCondition_NoLines(fr, changed, lines) == fr \/ changed

\* Line 376: whether the account's report is sent.
ReportCondition(first_run, changes_detected, account_lines) ==
    (first_run \/ changes_detected) /\ account_lines # <<>>

\* A first_run that does not look at the status map.
FirstRun_Always(status) == TRUE

\* Line 198: first-cycle mode.
FirstRun(status) == IF DOMAIN status # {} THEN FALSE ELSE TRUE

---------------------------------------------------------------------------
\* The environment: what the provider's API, the two files and the chat
\* service can hand to the program.

\* Machine records as /machines returns them.
BaseServer(i) ==
    [ id |-> i, listed |-> TRUE,
      current_rentals_running |-> 1, current_rentals_resident |-> 1,
      num_gpus |-> 2, gpu_occupancy |-> <<"D", " ", "x">>,
      reliability2 |-> 99, earn_hour |-> 4, earn_day |-> 90,
      listed_gpu_cost |-> 50, listed_storage_cost |-> 10,
      listed_min_gpu_count |-> 1, min_bid_price |-> 30,
      listed_inet_down_cost |-> 2, listed_inet_up_cost |-> 3,
      num_reports |-> Null, verification |-> "verified" ]

ServerVariants(i) ==
    { BaseServer(i),
      \* one more GPU rented
      [BaseServer(i) EXCEPT !.gpu_occupancy = <<"D", " ", "I">>],
      \* no rental running, the occupancy string still shows one
      [BaseServer(i) EXCEPT !.current_rentals_running = 0],
      \* unlisted, three rentals running
      [BaseServer(i) EXCEPT !.listed = FALSE, !.current_rentals_running = 3],
      \* only fields that are not compared differ
      [BaseServer(i) EXCEPT !.earn_hour = 5],
      \* a record with nothing but its id
      [id |-> i] }

\* The ids of the machines behind the API key.
MachineIds == {1, 2}

ServerPool == ServerVariants(1) \cup {BaseServer(2)}

\* The machine lists of a response: ids are unique within one list.
ServerLists ==
    { l \in UNION { [1..n -> ServerPool] : n \in 0..Cardinality(MachineIds) } :
        \A i, j \in DOMAIN l : i # j => l[i].id # l[j].id }

Failed == [ok |-> FALSE]

MachineResponses == {Failed} \cup { [ok |-> TRUE, json |-> [machines |-> l]] : l \in ServerLists }

UserResponses == { Failed, [ok |-> TRUE, json |-> [balance |-> 7]] }

EarningsResponses == { Failed, [ok |-> TRUE, json |-> [machine_earnings |-> 5]] }

\* config.json: the accounts in file order.  The entries share one API key
\* and split its machines between two sets of recipients.
Alice == [name |-> "alice",
          data |-> [api_key |-> "k", notify |-> <<10, 20>>, machine_ids |-> <<AllServers>>]]

Bob == [name |-> "bob",
        data |-> [api_key |-> "k", notify |-> <<10>>, machine_ids |-> <<2>>]]

\* An account entry without its "notify" key.
Carol == [name |-> "carol",
          data |-> [api_key |-> "k", machine_ids |-> <<1>>]]

ConfigFiles ==
    { [kind |-> "absent"], [kind |-> "malformed"],
      [kind |-> "json", data |-> <<Alice>>],
      [kind |-> "json", data |-> <<Bob, Alice>>],
      [kind |-> "json", data |-> <<Bob, Carol>>] }

\* status.json when the process starts: missing, unreadable, empty, written
\* by an earlier run, or written by an older revision with fewer keys.
LegacyEntry == [rented |-> TRUE, rented_gpus |-> 1, listed_gpu_cost |-> 50,
                listed_storage_cost |-> 10, min_bid_price |-> 30,
                listed_min_gpu_count |-> 1, num_reports |-> 3]

SingleEntry(k, e) == [x \in {k} |-> e]

StatusFiles ==
    { [kind |-> "absent"], [kind |-> "malformed"],
      [kind |-> "json", data |-> EmptyDict],
      [kind |-> "json", data |-> SingleEntry("1", NewEntry(Derive(BaseServer(1))))],
      [kind |-> "json", data |-> SingleEntry("1", LegacyEntry)] }

\* set(chat_ids), line 81
Recipients(notify) == { notify[i] : i \in DOMAIN notify }

Elements(list) == { list[i] : i \in DOMAIN list }

\* A gather that lets the first failed delivery propagate to its caller.
gather_Propagating(recipients, failed) ==
    [ raised |-> failed # {}, delivered |-> recipients \ failed ]

\* Lines 83-93: one send_message per recipient, all awaited together by
\* asyncio.gather(*tasks, return_exceptions=True): an exception of a delivery
\* becomes a result, every other delivery runs to its end.
gather(recipients, failed) ==
    [ raised |-> FALSE, delivered |-> recipients \ failed ]

\* Lines 377-382: the report text.  The header, then the change lines joined, then the status lines joined.
Message(account_name, bal, earn, changes, lines) ==
    << [kind |-> "header", id |-> "", account |-> account_name,
        balance |-> bal, earnings |-> earn] >> \o changes \o lines

---------------------------------------------------------------------------
\* The state

VARIABLES
    pc,                 \* the await the task is suspended at
    shutdown_event,     \* self.shutdown_event
    fault,              \* the exception propagating out of monitor_servers
    status_file,        \* status.json
    previous_status,    \* self.previous_status
    vast_accounts,      \* self.vast_accounts, in items() order
    idx,                \* position of the for loop of line 397
    first_run, balance, machine_earnings, servers,
    changes_detected, changes_lines, account_lines,   \* locals of process_account
    influx,             \* points written by this process_account call
    report,             \* the message handed to send_telegram_message, or <<>>
    delivered,          \* the chats the report reached
    send_failed,        \* the chats whose send_message raised
    fetch_failed,       \* which fetches of this process_account call failed
    notices,            \* the start and stop messages sent by main
    cycle,              \* number of cycles begun
    reconciled,         \* accounts whose process_account returned in this cycle
    degraded,           \* accounts with a failed fetch in this cycle
    reconciled_before,  \* whether an earlier cycle reconciled an account
    saves_after_signal, \* whether save_json ran after the signal
    config_read,        \* config.json as line 395 found it in this cycle
    last_save,          \* how the last save_json call ended, "none" before it
    cycle_changes,      \* the change lines reported so far in this cycle
    unsaved_changes     \* the change lines reported in the last cycle, when its
                        \* save failed

locals == <<first_run, balance, machine_earnings, servers, changes_detected,
            changes_lines, account_lines, influx, report, delivered, send_failed,
            fetch_failed>>

history == <<reconciled, degraded, reconciled_before>>

journal == <<config_read, last_save>>

ledger == <<cycle_changes, unsaved_changes>>

vars == <<pc, shutdown_event, fault, status_file, previous_status, vast_accounts,
          idx, locals, notices, cycle, history, saves_after_signal, journal,
          ledger>>

account_name == vast_accounts[idx].name

account_data == vast_accounts[idx].data

\* Lines 198-208: a fresh frame of process_account.
NewFrame(fr) ==
    /\ first_run' = fr
    /\ balance' = 0
    /\ machine_earnings' = 0
    /\ servers' = <<>>
    /\ changes_detected' = FALSE
    /\ changes_lines' = <<>>
    /\ account_lines' = <<>>
    /\ influx' = {}
    /\ report' = <<>>
    /\ delivered' = {}
    /\ send_failed' = {}
    /\ fetch_failed' = {}

Init ==
    /\ pc = "startup"
    /\ shutdown_event = FALSE
    /\ fault = "none"
    /\ status_file \in StatusFiles
    /\ previous_status = EmptyDict
    /\ vast_accounts = EmptyDict
    /\ idx = 0
    /\ first_run = FALSE
    /\ balance = 0
    /\ machine_earnings = 0
    /\ servers = <<>>
    /\ changes_detected = FALSE
    /\ changes_lines = <<>>
    /\ account_lines = <<>>
    /\ influx = {}
    /\ report = <<>>
    /\ delivered = {}
    /\ send_failed = {}
    /\ fetch_failed = {}
    /\ notices = <<>>
    /\ cycle = 0
    /\ reconciled = <<>>
    /\ degraded = {}
    /\ reconciled_before = FALSE
    /\ saves_after_signal = FALSE
    /\ config_read = [kind |-> "absent"]
    /\ last_save = "none"
    /\ cycle_changes = {}
    /\ unsaved_changes = {}

---------------------------------------------------------------------------
\* monitor_servers: the code between two awaits

\* An exception leaves monitor_servers through its finally (line 415).
Raise(exception) ==
    /\ fault' = exception
    /\ pc' = "close_session"

\* Lines 198-210: process_account is entered for account i and runs to its
\* first await; a missing key of the account entry raises KeyError.
EnterAccount(i, accounts, status) ==
    /\ idx' = i
    /\ NewFrame(FirstRun(status))
    /\ IF {"api_key", "notify", "machine_ids"} \subseteq DOMAIN accounts[i].data
       THEN pc' = "get_current_user" /\ fault' = fault
       ELSE Raise("KeyError")
    /\ UNCHANGED <<status_file, saves_after_signal, last_save, ledger>>

\* Lines 403-411: the loop over the accounts is over; save and start waiting.
SaveAndWait(status) ==
    /\ \E outcome \in SaveOutcomes :
           LET saved == save_json(status_file, status, outcome)
           IN  /\ status_file' = saved.file
               /\ last_save' = outcome
               /\ unsaved_changes' = IF outcome = "ok" THEN {} ELSE cycle_changes
               /\ cycle_changes' = {}
               /\ IF saved.raised
                    THEN Raise("IOError")
                    ELSE pc' = "wait" /\ fault' = fault
    /\ saves_after_signal' = (saves_after_signal \/ shutdown_event)
    /\ idx' = 0
    /\ NewFrame(FALSE)

\* Line 397: the for loop reaches position i.
ForLoop(i, accounts, status) ==
    IF i <= Len(accounts)
    THEN EnterAccount(i, accounts, status)
    ELSE SaveAndWait(status)

\* A cycle that keeps the map it has in memory and reads the file only when
\* that map is empty.
ReloadStatus_OnlyWhenEmpty(file, memory) ==
    IF memory # EmptyDict THEN [raised |-> FALSE, value |-> memory] ELSE load_json(file)

\* Line 394: self.previous_status = self.load_json(STATUS_FILE)
ReloadStatus(file, memory) == load_json(file)

\* Lines 394-397: a cycle begins with both files loaded afresh.
BeginCycle ==
    /\ cycle < MaxCycles
    /\ cycle' = cycle + 1
    /\ \E config_file \in ConfigFiles :
         LET status == ReloadStatus(status_file, previous_status)
             accounts == load_json(config_file)
         IN  /\ config_read' = config_file
             /\ IF status.raised \/ accounts.raised
                  THEN /\ Raise("JSONDecodeError")
                       /\ previous_status' =
                              IF status.raised THEN previous_status ELSE status.value
                       /\ UNCHANGED <<vast_accounts, idx, locals, status_file,
                                      saves_after_signal, last_save, ledger>>
                  ELSE /\ previous_status' = status.value
                       /\ vast_accounts' = accounts.value
                       /\ ForLoop(1, accounts.value, status.value)
    /\ reconciled' = <<>>
    /\ degraded' = {}
    /\ reconciled_before' = (reconciled_before \/ reconciled # <<>>)

\* Line 392 found the event set: the loop is left through line 415.
ExitLoop ==
    /\ pc' = "close_session"
    /\ UNCHANGED <<fault, status_file, previous_status, vast_accounts, idx, locals,
                   cycle, history, saves_after_signal, journal, ledger>>

\* A loop head that does not look at the event.
WhileHead_Ignore == BeginCycle

\* Line 392: while not self.shutdown_event.is_set()
WhileHead == IF shutdown_event THEN ExitLoop ELSE BeginCycle

\* process_account returns to line 401.
Return ==
    /\ pc' = "sleep"
    /\ reconciled' = Append(reconciled, account_name)

---------------------------------------------------------------------------
\* The actions: each resumes the task from one await

\* main, line 428: the start message is out; monitor_servers begins.
Startup ==
    /\ pc = "startup"
    /\ notices' = Append(notices, "start")
    /\ WhileHead
    /\ UNCHANGED <<shutdown_event>>

\* Lines 210-212: the balance arrives.
GetCurrentUser ==
    /\ pc = "get_current_user"
    /\ UNCHANGED <<journal, ledger>>
    /\ \E response \in UserResponses :
         LET r == call_vast_api(response)
         IN  /\ fetch_failed' = IF response.ok THEN fetch_failed
                                ELSE fetch_failed \cup {"user"}
             /\ degraded' = IF response.ok THEN degraded
                            ELSE degraded \cup {account_name}
             /\ IF r.raised
                THEN Raise("ClientError") /\ balance' = balance
                ELSE /\ balance' = Get(r.value, "balance", 0)
                     /\ pc' = "get_user_earnings"
                     /\ fault' = fault
    /\ UNCHANGED <<shutdown_event, status_file, previous_status, vast_accounts, idx,
                   first_run, machine_earnings, servers, changes_detected,
                   changes_lines, account_lines, influx, report, delivered, send_failed,
                   notices, cycle, reconciled, reconciled_before, saves_after_signal>>

\* Lines 214-222: the earnings arrive and go to InfluxDB with the balance.
GetUserEarnings ==
    /\ pc = "get_user_earnings"
    /\ UNCHANGED <<journal, ledger>>
    /\ \E response \in EarningsResponses :
         LET r == call_vast_api(response)
         IN  /\ fetch_failed' = IF response.ok THEN fetch_failed
                                ELSE fetch_failed \cup {"earnings"}
             /\ degraded' = IF response.ok THEN degraded
                            ELSE degraded \cup {account_name}
             /\ IF r.raised
                THEN Raise("ClientError") /\ UNCHANGED <<machine_earnings, influx>>
                ELSE /\ machine_earnings' = OrNum(Get(r.value, "machine_earnings", 0), 0)
                     /\ influx' = influx \cup {<<account_name>>}
                     /\ pc' = "get_server_status"
                     /\ fault' = fault
    /\ UNCHANGED <<shutdown_event, status_file, previous_status, vast_accounts, idx,
                   first_run, balance, servers, changes_detected,
                   changes_lines, account_lines, report, delivered, send_failed,
                   notices, cycle, reconciled, reconciled_before, saves_after_signal>>

\* Lines 224-387: the machine list arrives; every machine is reconciled and
\* the report is decided.
GetServerStatus ==
    /\ pc = "get_server_status"
    /\ UNCHANGED <<journal, ledger>>
    /\ \E response \in MachineResponses :
         LET r == call_vast_api(response)
         IN  /\ fetch_failed' = IF response.ok THEN fetch_failed
                                ELSE fetch_failed \cup {"machines"}
             /\ degraded' = IF response.ok THEN degraded
                            ELSE degraded \cup {account_name}
             /\ IF r.raised
                THEN /\ Raise("ClientError")
                     /\ UNCHANGED <<servers, previous_status, changes_detected,
                                    changes_lines, account_lines, influx, reconciled>>
                ELSE LET fetched == Get(r.value, "machines", <<>>)
                         st == ServerLoop(account_name, fetched,
                                          Elements(account_data.machine_ids),
                                          [ previous_status |-> previous_status,
                                            changes_detected |-> changes_detected,
                                            changes_lines |-> changes_lines,
                                            account_lines |-> account_lines,
                                            influx |-> influx ])
                     IN  /\ servers' = fetched
                         /\ previous_status' = st.previous_status
                         /\ changes_detected' = st.changes_detected
                         /\ changes_lines' = WithSeparator(st.changes_lines)
                         /\ account_lines' = st.account_lines
                         /\ influx' = st.influx
                         /\ fault' = fault
                         /\ IF ReportCondition(first_run, st.changes_detected,
                                               st.account_lines)
                            THEN pc' = "send" /\ reconciled' = reconciled
                            ELSE Return
    /\ UNCHANGED <<shutdown_event, status_file, vast_accounts, idx,
                   first_run, balance, machine_earnings, report, delivered, send_failed,
                   notices, cycle, reconciled_before, saves_after_signal>>

\* Lines 377-385 and 78-93: the report is sent to every recipient at once;
\* a delivery that fails is dropped by gather(return_exceptions=True).
SendReport ==
    /\ pc = "send"
    /\ UNCHANGED <<journal, unsaved_changes>>
    /\ cycle_changes' = cycle_changes \cup
                           { ln \in Elements(changes_lines) : ln.kind # "blank" }
    /\ report' = Message(account_name, balance, machine_earnings,
                         changes_lines, account_lines)
    /\ \E failed \in SUBSET Recipients(account_data.notify) :
           LET results == gather(Recipients(account_data.notify), failed)
           IN  /\ send_failed' = failed
               /\ delivered' = results.delivered
               /\ IF results.raised
                    THEN Raise("TelegramError") /\ UNCHANGED reconciled
                    ELSE Return /\ UNCHANGED fault
    /\ UNCHANGED <<shutdown_event, status_file, previous_status, vast_accounts,
                   idx, first_run, balance, machine_earnings, servers,
                   changes_detected, changes_lines, account_lines, influx,
                   fetch_failed, notices, cycle, degraded, reconciled_before,
                   saves_after_signal>>

\* Lines 401-403: the delay after an account is over; the next account, or
\* the save after the last one.
InterAccountSleep ==
    /\ pc = "sleep"
    /\ ForLoop(idx + 1, vast_accounts, previous_status)
    /\ UNCHANGED <<shutdown_event, previous_status, vast_accounts, notices, cycle,
                   history, config_read>>

\* Lines 408-413: the wait ends, by the event or by the timeout.
IntervalWait ==
    /\ pc = "wait"
    /\ WhileHead
    /\ UNCHANGED <<shutdown_event, notices>>

\* Line 415: the session is closed.
CloseSession ==
    /\ pc = "close_session"
    /\ UNCHANGED <<journal, ledger>>
    /\ pc' = "send_stop"
    /\ UNCHANGED <<shutdown_event, fault, status_file, previous_status, vast_accounts,
                   idx, locals, notices, cycle, history,
                   saves_after_signal>>

\* Line 432: the stop message is out; main returns, or the exception leaves
\* asyncio.run.
SendStop ==
    /\ pc = "send_stop"
    /\ UNCHANGED <<journal, ledger>>
    /\ notices' = Append(notices, "stop")
    /\ pc' = IF fault = "none" THEN "done" ELSE "crashed"
    /\ UNCHANGED <<shutdown_event, fault, status_file, previous_status, vast_accounts,
                   idx, locals, cycle, history, saves_after_signal>>

\* handle_shutdown: SIGINT or SIGTERM arrives while the task is suspended.
handle_shutdown ==
    /\ pc \notin {"done", "crashed"}
    /\ shutdown_event' = TRUE
    /\ UNCHANGED <<journal, ledger>>
    /\ UNCHANGED <<pc, fault, status_file, previous_status, vast_accounts, idx,
                   locals, notices, cycle, history, saves_after_signal>>

Next ==
    \/ Startup
    \/ GetCurrentUser
    \/ GetUserEarnings
    \/ GetServerStatus
    \/ SendReport
    \/ InterAccountSleep
    \/ IntervalWait
    \/ CloseSession
    \/ SendStop
    \/ handle_shutdown

Spec == Init /\ [][Next]_vars

\* The event loop resumes a suspended task whose await has completed.
Task ==
    \/ Startup
    \/ GetCurrentUser
    \/ GetUserEarnings
    \/ GetServerStatus
    \/ SendReport
    \/ InterAccountSleep
    \/ IntervalWait
    \/ CloseSession
    \/ SendStop

FairSpec == Spec /\ WF_vars(Task)

---------------------------------------------------------------------------
\* Vocabulary of the properties

\* The task is inside process_account.
InAccount ==
    pc \in {"get_current_user", "get_user_earnings", "get_server_status", "send", "sleep"}

\* process_account is past its loop over the machines.
AfterLoop == pc \in {"send", "sleep"}

\* The polling loop of monitor_servers has been left.
LoopEnded == pc \in {"close_session", "send_stop", "done", "crashed"}

\* The step that runs the loop over the machines and does not raise.
LoopStep == pc = "get_server_status" /\ pc' \in {"send", "sleep"}

\* The fields the detector compares (lines 289-336).
ComparedFields ==
    { "rented", "rented_gpus", "listed_gpu_cost", "listed_storage_cost",
      "listed_min_gpu_count", "min_bid_price", "listed_inet_down_cost",
      "listed_inet_up_cost", "num_reports", "verification" }

\* The entry holds every compared field with the value derived from the record.
SameCompared(entry, server) ==
    \A f \in ComparedFields : f \in DOMAIN entry /\ entry[f] = Derive(server)[f]

\* The filter as the configuration states it: the sentinel, or the exact ids.
Passes(server, ids) == IF AllServers \in ids THEN TRUE ELSE server.id \in ids

\* The ids on the lines of a list of rendered lines.
LineIds(lines) == { lines[i].id : i \in DOMAIN lines }

AccountNames(accounts) == [i \in DOMAIN accounts |-> accounts[i].name]

---------------------------------------------------------------------------
\* C1: process_account sends its report if and only if (first_run or a
\* change was detected) and at least one machine produced a status line; no
\* report without a change outside first-cycle mode, and none when no fetched
\* machine passed the filter or the machine fetch failed, first_run or not.
C1_ReportIffChangeAndLines ==
    LET ids == Elements(account_data.machine_ids)
        wanted == (first_run \/ changes_detected) /\ account_lines # <<>>
    IN  /\ pc = "send" => wanted
        /\ pc = "sleep" =>
              /\ (report # <<>>) <=> wanted
              /\ (~first_run /\ ~changes_detected) => report = <<>>
              /\ (\A i \in DOMAIN servers : ~Passes(servers[i], ids)) => report = <<>>
              /\ "machines" \in fetch_failed => report = <<>>

\* Machines were processed, nothing changed, and no report went out.
C1_Witness ==
    /\ pc = "sleep"
    /\ account_lines # <<>>
    /\ ~first_run /\ ~changes_detected
    /\ report = <<>>

\* C2: a processed machine whose status-map entry holds every compared field
\* with the value derived from the fetched record gets no change line, and
\* when every processed machine is such, changes_detected stays false.
C2_IdenticalEntryNoChange ==
    [][ LoopStep =>
          LET ids == Elements(account_data.machine_ids)
              same(i) ==
                  /\ Passes(servers'[i], ids)
                  /\ Str(servers'[i].id) \in DOMAIN previous_status
                  /\ SameCompared(previous_status[Str(servers'[i].id)], servers'[i])
          IN  /\ \A i \in DOMAIN servers' :
                    same(i) => Str(servers'[i].id) \notin LineIds(changes_lines')
              /\ (\A i \in DOMAIN servers' : Passes(servers'[i], ids) => same(i))
                    => ~changes_detected' /\ changes_lines' = <<>>
      ]_vars

\* A machine with rented GPUs was compared against an identical entry.
C2_Witness ==
    /\ AfterLoop
    /\ ~changes_detected
    /\ \E i \in DOMAIN account_lines : account_lines[i].gpu_status[1] = 2

\* C3: a processed machine whose id has no entry in the status map when it is
\* compared sets changes_detected, whatever its fields, and gets a status
\* line but no change line.
C3_FirstSeenIsAChange ==
    [][ LoopStep =>
          LET ids == Elements(account_data.machine_ids)
          IN  \A i \in DOMAIN servers' :
                  (Passes(servers'[i], ids)
                       /\ Str(servers'[i].id) \notin DOMAIN previous_status)
                  => /\ changes_detected'
                     /\ Str(servers'[i].id) \notin LineIds(changes_lines')
                     /\ Str(servers'[i].id) \in LineIds(account_lines')
      ]_vars

\* A machine was first seen beside known ones: a change, and no change line.
C3_Witness ==
    /\ AfterLoop
    /\ ~first_run
    /\ changes_detected
    /\ changes_lines = <<>>
    /\ account_lines # <<>>

\* C4: a fault raised in the cycle body never ends the process: the polling
\* loop is left only after the cancellation signal, and the process never
\* ends with the exception.
C4_FaultNeverEndsTheLoop ==
    /\ LoopEnded => shutdown_event
    /\ pc # "crashed"

\* C5: once the signal is delivered, no further process_account call is
\* started in the cycle in progress.
C5_NoAccountStartedAfterSignal ==
    [][ shutdown_event /\ pc # "get_current_user" => pc' # "get_current_user" ]_vars

\* C6: shutting down is terminal: the event is never cleared, no further
\* cycle begins (no reload of the status map and the configuration), a wait
\* in progress ends by leaving the loop, and the loop is eventually left.
C6_ShutdownIsTerminal ==
    /\ [][ shutdown_event => shutdown_event' ]_vars
    /\ [][ shutdown_event => cycle' = cycle /\ vast_accounts' = vast_accounts ]_vars
    /\ [][ shutdown_event /\ pc \in {"startup", "wait"}
              => previous_status' = previous_status ]_vars
    /\ [][ shutdown_event /\ pc = "wait" /\ pc' # pc => pc' = "close_session" ]_vars
    /\ shutdown_event ~> LoopEnded

\* The signal arrived after a cycle and the loop was left without a fault.
C6_Witness ==
    /\ shutdown_event
    /\ cycle >= 1
    /\ fault = "none"
    /\ pc = "close_session"

\* C7: when the loop has ended after the signal, the status map was saved
\* once more after the signal and the stop notification follows.
C7_FinalSaveOnShutdown ==
    /\ (LoopEnded /\ shutdown_event /\ cycle >= 1) => saves_after_signal
    /\ pc \in {"done", "crashed"} => notices = <<"start", "stop">>

\* C8: a failed fetch never raises out of process_account; the failed fetch
\* yields balance 0, earnings 0 or no machines; and the save at the end of
\* the cycle is reached with every account of the configuration reconciled.
C8_FetchFailureIsIsolated ==
    /\ fault # "ClientError"
    /\ fetch_failed # {} => fault = "none"
    /\ "user" \in fetch_failed => balance = 0
    /\ "earnings" \in fetch_failed => machine_earnings = 0
    /\ "machines" \in fetch_failed => servers = <<>> /\ account_lines = <<>>
    /\ pc = "wait" => reconciled = AccountNames(vast_accounts)

\* The first account's fetch failed, the second was reconciled and the map saved.
C8_Witness ==
    /\ pc = "wait"
    /\ Len(reconciled) = 2
    /\ reconciled[1] \in degraded
    /\ reconciled[2] \notin degraded
    /\ status_file = [kind |-> "json", data |-> previous_status]
    /\ DOMAIN previous_status # {}

\* C9: with the sentinel every fetched machine is processed, otherwise
\* exactly those whose id is in machine_ids, in fetch order; a machine that
\* is filtered out keeps its status-map entry or its absence, gets no
\* telemetry, no status line and no change line, and when every machine is
\* filtered out there is no report.
C9_FilteredMachinesAreSkipped ==
    [][ LoopStep =>
          LET ids == Elements(account_data.machine_ids)
              pass(server) == Passes(server, ids)
              passed == SelectSeq(servers', pass)
          IN  /\ [i \in DOMAIN account_lines' |-> account_lines'[i].id]
                    = [i \in DOMAIN passed |-> Str(passed[i].id)]
              /\ \A i \in DOMAIN servers' :
                    LET k == Str(servers'[i].id)
                    IN  ~pass(servers'[i]) =>
                          /\ k \in DOMAIN previous_status' <=> k \in DOMAIN previous_status
                          /\ k \in DOMAIN previous_status
                                => previous_status'[k] = previous_status[k]
                          /\ <<account_name, k>> \notin influx'
                          /\ k \notin LineIds(account_lines')
                          /\ k \notin LineIds(changes_lines')
              /\ passed = <<>> => pc' = "sleep"
      ]_vars

\* One machine was filtered out with its entry in the map, another processed.
C9_Witness ==
    /\ AfterLoop
    /\ account_lines # <<>>
    /\ \E i \in DOMAIN servers :
          /\ ~Passes(servers[i], Elements(account_data.machine_ids))
          /\ Str(servers[i].id) \in DOMAIN previous_status

\* C10 as stated: first_run is true during the first reconciliation pass
\* only, never once an earlier cycle has reconciled an account.
C10_FirstRunOnlyOnFirstPass ==
    (InAccount /\ first_run) => ~reconciled_before

\* C10 as the code has it: first_run is true exactly when the status map in
\* memory is empty when process_account is entered, in any cycle and for any
\* account.
C10_FirstRunIffStatusMapEmpty ==
    pc \in {"get_current_user", "get_user_earnings", "get_server_status"}
        => (first_run <=> DOMAIN previous_status = {})

\* first_run is true for the second account of a later cycle.
C10_Witness ==
    /\ pc = "get_current_user"
    /\ first_run
    /\ reconciled_before
    /\ idx = 2

\* C11: the accounts of a cycle are reconciled one after the other in the
\* order of the configuration, and the inter-account delay is only awaited
\* between two accounts: the last account is followed by the save, not by
\* the delay.
C11_NoDelayAfterLastAccount ==
    /\ InAccount =>
          /\ Len(reconciled) \in {idx - 1, idx}
          /\ reconciled = SubSeq(AccountNames(vast_accounts), 1, Len(reconciled))
    /\ pc = "sleep" => idx < Len(vast_accounts)

\* C12: the deliveries of one report are isolated from one another: whatever
\* set of recipients has a failing delivery, every other recipient receives
\* the report, and send_telegram_message returns normally, so that
\* process_account returns with no fault raised.
C12_DeliveriesAreIsolated ==
    /\ fault # "TelegramError"
    /\ (pc = "sleep" /\ report # <<>>) =>
          /\ send_failed \subseteq Recipients(account_data.notify)
          /\ delivered = Recipients(account_data.notify) \ send_failed
          /\ fault = "none"
          /\ reconciled[Len(reconciled)] = account_name
    /\ report = <<>> => delivered = {} /\ send_failed = {}

\* One of two deliveries failed, the other one arrived, and process_account
\* returned.
C12_Witness ==
    /\ pc = "sleep"
    /\ report # <<>>
    /\ send_failed = {10}
    /\ delivered = {20}

C14_RentalDirection ==
    [][ LoopStep =>
          LET ids == Elements(account_data.machine_ids)
          IN  \A i \in DOMAIN servers' :
                LET server_id == server_id_of(servers'[i])
                    d == Derive(servers'[i])
                    rental == { j \in DOMAIN changes_lines' :
                                   /\ changes_lines'[j].kind = "rental"
                                   /\ changes_lines'[j].id = server_id }
                IN  (Passes(servers'[i], ids) /\ server_id \in DOMAIN previous_status) =>
                      LET p == Previous(previous_status[server_id])
                      IN  /\ (rental # {}) <=>
                                (p.rented # d.rented \/ p.rented_gpus # d.rented_gpus)
                          /\ \A j \in rental :
                                /\ (changes_lines'[j].ico_status = "ramp_up")
                                      <=> (d.rented_gpus > p.rented_gpus)
                                /\ (changes_lines'[j].ico_status = "ramp_down")
                                      <=> (d.rented_gpus <= p.rented_gpus)
    ]_vars

\* The boundary: the rented flag changed, the rented GPU count did not, and
\* the line says "ramp down".
C14_Witness ==
    /\ AfterLoop
    /\ \E j \in DOMAIN changes_lines :
          /\ changes_lines[j].kind = "rental"
          /\ changes_lines[j].old[1] = changes_lines[j].new[1]
          /\ changes_lines[j].ico_status = "ramp_down"

\* C15: when process_account has returned, every fetched machine that passed
\* the filter has an entry in the status map, the entry holds the values
\* derived from the record just fetched, whether the machine changed or not
\* and whether a report is sent or not, and a telemetry point was written for
\* the machine.
C15_EntryIsTheNewRecord ==
    AfterLoop =>
       LET ids == Elements(account_data.machine_ids)
       IN  \A i \in DOMAIN servers :
              Passes(servers[i], ids) =>
                 LET server_id == server_id_of(servers[i])
                     d == Derive(servers[i])
                 IN  /\ server_id \in DOMAIN previous_status
                     /\ DOMAIN previous_status[server_id] =
                           ComparedFields \cup
                              { "earn_hour", "earn_day", "reliability",
                                "gpu_occupancy", "running", "resident" }
                     /\ \A f \in DOMAIN previous_status[server_id] :
                           previous_status[server_id][f] = d[f]
                     /\ <<account_name, server_id>> \in influx

\* A machine passed the filter, nothing changed, no report is sent, and its
\* entry was rewritten all the same from a record whose rented GPU count is
\* not its count of running rentals.
C15_Witness ==
    /\ pc = "sleep"
    /\ report = <<>>
    /\ ~changes_detected
    /\ \E i \in DOMAIN servers :
          /\ Passes(servers[i], Elements(account_data.machine_ids))
          /\ Derive(servers[i]).rented_gpus # Derive(servers[i]).running
          /\ server_id_of(servers[i]) \in DOMAIN previous_status

\* The field groups of the detector in the order of lines 289-340.
GroupOrder ==
    << "rental", "gpu_price", "storage_price", "min_gpu", "min_bid",
       "inet_down", "inet_up", "num_reports", "verification" >>

\* Whether the group differs between the defaulted old values p and the
\* derived new values d.
Differs(tag, p, d) ==
    CASE tag = "rental" -> p.rented # d.rented \/ p.rented_gpus # d.rented_gpus
      [] tag = "gpu_price" -> p.listed_gpu_cost # d.listed_gpu_cost
      [] tag = "storage_price" -> p.listed_storage_cost # d.listed_storage_cost
      [] tag = "min_gpu" -> p.listed_min_gpu_count # d.listed_min_gpu_count
      [] tag = "min_bid" -> p.min_bid_price # d.min_bid_price
      [] tag = "inet_down" -> p.listed_inet_down_cost # d.listed_inet_down_cost
      [] tag = "inet_up" -> p.listed_inet_up_cost # d.listed_inet_up_cost
      [] tag = "num_reports" -> p.num_reports # d.num_reports
      [] tag = "verification" -> p.verification # d.verification

\* The kinds of the lines of a list that carry the given id, in order.
KindsOf(lines, server_id) ==
    LET own == SelectSeq(lines, LAMBDA ln : ln.id = server_id)
    IN  [j \in DOMAIN own |-> own[j].kind]

\* The ids of the lines of the given kinds, in order.
IdsOf(lines, kinds) ==
    LET own == SelectSeq(lines, LAMBDA ln : ln.kind \in kinds)
    IN  [j \in DOMAIN own |-> own[j].id]

\* The ids of the fetched records that pass the filter, in fetch order.
PassingIds(fetched, ids) ==
    LET own == SelectSeq(fetched, LAMBDA server : Passes(server, ids))
    IN  [j \in DOMAIN own |-> server_id_of(own[j])]

\* C16: a known machine gets exactly one change line for each field group
\* that differs and none for a group that is equal, each group on its own, in
\* the fixed order rental, GPU price, storage price, minimum GPU count,
\* minimum bid, inet down, inet up, number of reports, verification; in the
\* report every change line comes before every status line, and the status
\* lines are in fetch order.
C16_ChangeLinesInFixedOrder ==
    /\ [][ LoopStep =>
             LET ids == Elements(account_data.machine_ids)
             IN  \A i \in DOMAIN servers' :
                       LET server_id == server_id_of(servers'[i])
                           d == Derive(servers'[i])
                       IN  Passes(servers'[i], ids) =>
                              KindsOf(changes_lines', server_id) =
                                 IF server_id \in DOMAIN previous_status
                                 THEN SelectSeq(GroupOrder,
                                         LAMBDA tag :
                                            Differs(tag, Previous(previous_status[server_id]), d))
                                 ELSE <<>>
         ]_vars
    /\ [](report # <<>> =>
             /\ report[1].kind = "header"
             /\ \A i, j \in DOMAIN report :
                   (i < j /\ report[i].kind = "status") => report[j].kind = "status"
             /\ InAccount =>
                   /\ IdsOf(report, {"status"}) =
                         PassingIds(servers, Elements(account_data.machine_ids))
                   /\ SubSeq(report, 2, Len(report)) = changes_lines \o account_lines)

\* A report went out whose machine differs in the minimum GPU count and in
\* the minimum bid, with a second machine's status line after it.
C16_Witness ==
    /\ pc = "sleep"
    /\ report # <<>>
    /\ \E k \in LineIds(changes_lines) :
          /\ {"rental", "min_gpu", "min_bid", "verification"} \subseteq
                { changes_lines[j].kind : j \in DOMAIN changes_lines }
          /\ Len(KindsOf(changes_lines, k)) >= 4
    /\ Len(account_lines) = 2

\* C17: a save that fails at the end of a cycle is never fatal and rolls
\* nothing back: no IOError leaves save_json, the loop goes on to its wait and
\* from there to the next cycle, and the status map in memory still holds
\* what the cycle wrote into it.
C17_FailedSaveIsNotFatal ==
    /\ [](fault # "IOError")
    /\ [](last_save \in {"open_failed", "write_failed"} /\ LoopEnded =>
             shutdown_event \/ fault = "KeyError")
    /\ [][ (pc = "sleep" /\ idx = Len(vast_accounts) /\ pc' # pc) =>
              /\ pc' = "wait"
              /\ fault' = "none"
              /\ previous_status' = previous_status
              /\ (last_save' = "open_failed") => (status_file' = status_file)
              /\ (last_save' = "write_failed") => (status_file'.kind = "malformed")
       ]_vars

\* The save of the first cycle failed, leaving a file that lacks what the
\* cycle stored, and the second cycle is under way.
C17_Witness ==
    /\ cycle = 2
    /\ pc = "get_current_user"
    /\ last_save = "open_failed"
    /\ reconciled_before
    /\ status_file.kind = "absent"

\* The entry process_account writes for a record, saved to the status file
\* and loaded again.
Reloaded(server) ==
    LET server_id == server_id_of(server)
        written == SingleEntry(server_id, NewEntry(Derive(server)))
        file == save_json([kind |-> "absent"], written, "ok").file
    IN  load_json(file).value[server_id]

\* C18: the steady state is silent.  When the status map a cycle starts from
\* holds, for a machine, the entry that process_account wrote for the very
\* record now fetched again (the save succeeded and the file was left alone),
\* the machine gets no change line; when this is so for every machine of the
\* account that passes the filter, no change is detected and no report is
\* sent.
C18_SteadyStateIsSilent ==
    [][ LoopStep =>
          LET ids == Elements(account_data.machine_ids)
              Steady(server) ==
                  /\ server_id_of(server) \in DOMAIN previous_status
                  /\ previous_status[server_id_of(server)] = Reloaded(server)
          IN  /\ \A i \in DOMAIN servers' :
                    (Passes(servers'[i], ids) /\ Steady(servers'[i])) =>
                       KindsOf(changes_lines', server_id_of(servers'[i])) = <<>>
              /\ (\A i \in DOMAIN servers' :
                     Passes(servers'[i], ids) => Steady(servers'[i])) =>
                    /\ changes_lines' = <<>>
                    /\ ~changes_detected'
                    /\ pc' = "sleep"
                    /\ report' = <<>>
    ]_vars

\* The second cycle, after a successful save, fetched for machine 2 the
\* record whose entry the first cycle wrote; nothing is reported.
C18_Witness ==
    /\ cycle = 2
    /\ last_save = "ok"
    /\ pc = "sleep"
    /\ status_file.kind = "json"
    /\ account_lines # <<>>
    /\ \E i \in DOMAIN servers : server_id_of(servers[i]) = "2"
    /\ \A i \in DOMAIN servers :
          Passes(servers[i], Elements(account_data.machine_ids)) =>
             /\ server_id_of(servers[i]) \in DOMAIN status_file.data
             /\ status_file.data[server_id_of(servers[i])] = Reloaded(servers[i])
    /\ changes_lines = <<>>
    /\ report = <<>>

\* C19: first_run never decides on its own.  Whenever first_run is true and
\* at least one machine produced a status line, changes_detected is true as
\* well, so the condition of the report, (first_run or changes_detected) and
\* account_lines, has the value of changes_detected and account_lines.
C19_FirstRunIsRedundant ==
    /\ (first_run /\ account_lines # <<>>) => changes_detected
    /\ ReportCondition(first_run, changes_detected, account_lines)
          <=> (changes_detected /\ account_lines # <<>>)

\* first_run is true and a machine was processed.
C19_Witness ==
    /\ AfterLoop
    /\ first_run
    /\ account_lines # <<>>
    /\ changes_detected

\* Whether the new value a change line reported is the value the record d
\* has now.
StillCurrent(ln, d) ==
    CASE ln.kind = "rental" -> ln.rented = d.rented /\ ln.new[1] = d.rented_gpus
      [] ln.kind = "gpu_price" -> ln.new = d.listed_gpu_cost
      [] ln.kind = "storage_price" -> ln.new = d.listed_storage_cost
      [] ln.kind = "min_gpu" -> ln.new = d.listed_min_gpu_count
      [] ln.kind = "min_bid" -> ln.new = d.min_bid_price
      [] ln.kind = "inet_down" -> ln.new = d.listed_inet_down_cost * 1024
      [] ln.kind = "inet_up" -> ln.new = d.listed_inet_up_cost * 1024
      [] ln.kind = "num_reports" -> ln.new = d.num_reports
      [] ln.kind = "verification" -> ln.new = d.verification

\* The machine loop of an account repeats every change line of the last
\* cycle, whose save ended as one of the given outcomes, for a machine it
\* processes, whose new value is still current and whose entry no account of
\* this cycle has rewritten yet; and it sends a report.
RepeatsUnsavedChanges(outcomes) ==
    LoopStep =>
       LET ids == Elements(account_data.machine_ids)
       IN  \A ln \in unsaved_changes :
             \A i \in DOMAIN servers' :
                (/\ last_save \in outcomes
                 /\ Passes(servers'[i], ids)
                 /\ server_id_of(servers'[i]) = ln.id
                 /\ StillCurrent(ln, Derive(servers'[i]))
                 /\ Get(previous_status, ln.id, EmptyDict)
                       = Get(load_json(status_file).value, ln.id, EmptyDict))
                => /\ \E j \in DOMAIN changes_lines' :
                         /\ changes_lines'[j].kind = ln.kind
                         /\ changes_lines'[j].id = ln.id
                         /\ changes_lines'[j].old = ln.old
                         /\ changes_lines'[j].new = ln.new
                   /\ pc' = "send"

\* Every cycle starts from what the status file holds, not from the map in
\* memory.
CycleStartsFromFile ==
    cycle' # cycle => previous_status' = load_json(status_file).value

===========================================================================
